---------------------------- MODULE Spec2Model ----------------------------
(***************************************************************************)
(* PySwizzle (src/bot.py): a bot that replies to every @mention with a     *)
(* lyric.  The model covers the corpus loader (load_lyrics), the matcher   *)
(* (similarity, choose_lyric), the reply pipeline (handle_tweet), the main *)
(* loop (run) and the two interfaces it runs on (DebugInterface over a     *)
(* prepared list, TwitterInterface over a live stream with hangups).       *)
(*                                                                         *)
(* Python str values are TLA+ strings; Len, SubSeq and \o act on them as   *)
(* on any sequence of characters.                                          *)
(***************************************************************************)
EXTENDS Integers, Sequences, FiniteSets, TLC

VARIABLES
    iface,          \* "debug" (DebugInterface) or "live" (TwitterInterface)
    file,           \* the lines of the lyrics file, each with its line terminator
    lyrics,         \* PySwizzle.lyrics: None or Some(list of str)
    lyrics_lower,   \* PySwizzle.lyrics_lower: None or Some(list of str)
    events,         \* PySwizzle.events: the event kinds that have a callback
    tweets,         \* DebugInterface.tweets: the prepared list of records
    pos,            \* how many records the loop's iterator has yielded
    opens,          \* TwitterInterface: how many times open_stream has run
    depth,          \* TwitterInterface.__next__: nested calls still waiting
    delivered,      \* history: the records read from the transport iterators
    observed,       \* history: the records the iterator handed to run's loop
    called,         \* history: the records handed to event callbacks
    sent,           \* history: the calls of interface.tweet
    log,            \* history: the log records, <<level, message>>
    pc,             \* where run() is: "start", "loop", "done", "crashed"
    err,            \* the exception that ended run(), "" if none
    text,           \* choose_lyric called on its own: its argument
    lines,          \* choose_lyric called on its own: its list of candidates
    chosen,         \* choose_lyric called on its own: what it returned
    loads           \* history: what each load_lyrics call stored

vars == <<iface, file, lyrics, lyrics_lower, events, tweets, pos, opens, depth,
          delivered, observed, called, sent, log, pc, err, text, lines, chosen,
          loads>>

-----------------------------------------------------------------------------
(* Python values *)

\* Optional values: None and a present value.
None == <<>>
Some(v) == <<v>>
Get(o) == o[1]

\* The i-th character of a str, as a str of length 1.
Ch(s, i) == SubSeq(s, i, i)

\* s[i:]
From(s, i) == SubSeq(s, i, Len(s))

UpperCase == "ABCDEFGHIJKLMNOPQRSTUVWXYZ"
LowerCase == "abcdefghijklmnopqrstuvwxyz"

\* str.lower() on one character.
LowerChar(c) ==
    IF \E i \in 1..Len(UpperCase) : Ch(UpperCase, i) = c
    THEN Ch(LowerCase, CHOOSE i \in 1..Len(UpperCase) : Ch(UpperCase, i) = c)
    ELSE c

RECURSIVE Lower(_)
\* str.lower(): every character lowered, the halves of s one after the other.
\* (x is s, evaluated once.)
Lower(s) ==
    CHOOSE r \in
        {IF x = "" THEN ""
         ELSE IF Len(x) = 1 THEN LowerChar(x)
         ELSE Lower(SubSeq(x, 1, Len(x) \div 2)) \o Lower(From(x, Len(x) \div 2 + 1)) :
            x \in {s}} : TRUE

\* str.isspace() on one character.
IsSpace(c) == c \in {" ", "\t", "\n"}

\* The positions of s that hold a character that is not whitespace.
Inked(s) == {i \in 1..Len(s) : ~IsSpace(Ch(s, i))}

\* str.strip(): s from its first to its last character that is not
\* whitespace, '' when it has none.
Strip(s) ==
    IF Inked(s) = {} THEN ""
    ELSE SubSeq(s,
                CHOOSE i \in 1..Len(s) :
                    ~IsSpace(Ch(s, i)) /\ \A j \in 1..(i - 1) : IsSpace(Ch(s, j)),
                CHOOSE i \in 1..Len(s) :
                    ~IsSpace(Ch(s, i)) /\ \A j \in (i + 1)..Len(s) : IsSpace(Ch(s, j)))

\* set(s.split()): the maximal runs of characters of s that are not
\* whitespace; none of them is empty.
Words(s) ==
    {SubSeq(s, i, j) : <<i, j>> \in
        {p \in Inked(s) \X Inked(s) :
            /\ p[1] <= p[2]
            /\ \A m \in p[1]..p[2] : m \in Inked(s)
            /\ p[1] - 1 \notin Inked(s)
            /\ p[2] + 1 \notin Inked(s)}}

\* piece in line, on str: piece occurs as a contiguous substring of line.
Contains(piece, line) ==
    \E i \in 1..(Len(line) - Len(piece) + 1) :
        SubSeq(line, i, i + Len(piece) - 1) = piece

RECURSIVE Join(_)
\* ' '.join(names)
Join(names) ==
    IF names = <<>> THEN ""
    ELSE IF Len(names) = 1 THEN names[1]
    ELSE names[1] \o " " \o Join(Tail(names))

RECURSIVE MaxOf(_)
\* max() of a non-empty list of int.
MaxOf(seq) ==
    CHOOSE r \in
        {IF Len(x) = 1 THEN x[1]
         ELSE CHOOSE k \in {IF x[1] >= m THEN x[1] ELSE m : m \in {MaxOf(Tail(x))}} : TRUE :
            x \in {seq}} : TRUE

RECURSIVE Filter(_, _, _)
\* [a[i] for i, b_i in enumerate(b) if b_i == v]
Filter(a, b, v) ==
    CHOOSE r \in
        {IF y = <<>> THEN <<>>
         ELSE (IF y[1] = w THEN <<x[1]>> ELSE <<>>) \o Filter(Tail(x), Tail(y), w) :
            x \in {a}, y \in {b}, w \in {v}} : TRUE

\* The orders a set can be iterated in.
Orders(S) ==
    {f \in [1..Cardinality(S) -> S] : \A i, j \in DOMAIN f : f[i] = f[j] => i = j}

-----------------------------------------------------------------------------
(* Bounds of the model *)

\* The prepared list of a DebugInterface holds at most this many records.
MaxTweets == 2

\* A live stream delivers at most this many records in all.
MaxReads == 3

\* The length of the longest lyric of the lyrics files.
LongLen == 132

\* load_lyrics is called on its own at most this many times.
MaxLoads == 2

-----------------------------------------------------------------------------
(* PySwizzle: construction *)

\* PySwizzle.__init__: username='pyswizzle'
username == "pyswizzle"

\* The longest reply handle_tweet sends.
MaxReplyLen == 140

-----------------------------------------------------------------------------
(* PySwizzle.load_lyrics *)

\* A slip in line 141: the lowercase list is made from the lines as read,
\* not from the stripped ones.
load_lyrics_lower_raw(f) ==
    LET kept == SelectSeq(f, LAMBDA l : l # "\n")
    IN  [lyrics |-> [i \in DOMAIN kept |-> Strip(kept[i])],
         lyrics_lower |-> [i \in DOMAIN kept |-> Lower(kept[i])]]

\* What load_lyrics stores for a file with the lines f (each line as the file
\* iterator yields it, its terminator included).
load_lyrics(f) ==
    LET kept == SelectSeq(f, LAMBDA l : l # "\n")
        stripped == [i \in DOMAIN kept |-> Strip(kept[i])]
    IN  [lyrics |-> stripped,
         lyrics_lower |-> [i \in DOMAIN stripped |-> Lower(stripped[i])]]

-----------------------------------------------------------------------------
(* PySwizzle.similarity, PySwizzle.choose_lyric *)

\* A slip in line 153: a piece counts only when it is a whole word of the line.
similarity_whole_words(pieces, line) == Cardinality(pieces \cap Words(line))

\* sum(piece in line for piece in pieces)
similarity(pieces, line) == Cardinality({p \in pieces : Contains(p, line)})

\* pieces = set(text.lower().split())
pieces_of(t) == UNION {Words(s) : s \in {Lower(t)}}

\* scores = [self.similarity(pieces, line) for line in self.lyrics_lower]
scores_of(pieces, lower) == [i \in DOMAIN lower |-> similarity(pieces, lower[i])]

RECURSIVE MinOf(_)
\* min() of a non-empty list of int.
MinOf(seq) ==
    IF Len(seq) = 1 THEN seq[1]
    ELSE LET m == MinOf(Tail(seq)) IN IF seq[1] <= m THEN seq[1] ELSE m

\* A slip in line 164: min() for max().
max_score_min(scores) == MinOf(scores)

\* max_score = max(scores)
max_score_of(scores) == MaxOf(scores)

\* A slip in lines 166-167: only the first lyric of maximal score is kept.
lines_first_only(lyr, scores, max_score) ==
    <<lyr[CHOOSE i \in DOMAIN scores :
             scores[i] = max_score /\ \A j \in 1..(i - 1) : scores[j] # max_score]>>

\* lines = [self.lyrics[i] for i, score in enumerate(scores) if score == max_score]
lines_of(lyr, scores, max_score) == Filter(lyr, scores, max_score)

\* The list random.choice draws from in choose_lyric(t); max() raises
\* ValueError when there are no lyrics, and then there is no such list.
candidates(t, lyr, lower) ==
    CHOOSE l \in {lines_of(lyr, scores, max_score_of(scores)) :
                     scores \in {scores_of(pieces_of(t), lower)}} : TRUE

-----------------------------------------------------------------------------
(* The records of the stream *)

\* A user object of a record.
User(h) == [screen_name |-> h]

\* A tweet: its id, its author, the handles it mentions, its text.
Tweet(id, author, mentions, t) ==
    [id |-> id, user |-> User(author), text |-> t,
     entities |-> [user_mentions |-> [i \in DOMAIN mentions |-> User(mentions[i])]]]

\* The record has the keys of a tweet.
IsTweet(n) == {"id", "user", "text", "entities"} \subseteq DOMAIN n

\* An event of the given kind.
Event(kind) == [event |-> kind]

\* Twitter's hangup notification.
Hangup == [hangup |-> TRUE]

-----------------------------------------------------------------------------
(* PySwizzle.handle_tweet *)

\* A slip in line 175: the author is compared with the '@'-prefixed username.
is_own_prefixed(tweet) == tweet.user.screen_name = "@" \o username

\* Line 175: the tweet is one that we sent.
is_own(tweet) == tweet.user.screen_name = username

\* Lines 179-180: the mention list once the author is appended to it.
mentions_of(tweet) == Append(tweet.entities.user_mentions, tweet.user)

\* Line 181: the set of screen names of a mention list.
usernames_of(mentions) == {mentions[i].screen_name : i \in DOMAIN mentions}

\* A slip in line 182: the names are compared without regard to case.
is_mentioned_anycase(names) == Lower(username) \in {Lower(n) : n \in names}

\* Line 182: we are @mentioned.
is_mentioned(names) == username \in names

\* A slip in line 188: our own name is not left out of the prefix.
prefix_of_all(names) == {"@" \o u : u \in names}

\* Line 188: the names the reply is prefixed with, before they are ordered.
prefix_of(names) == {"@" \o u : u \in {n \in names : n # username}}

\* Line 190: the reply, for the prefix names in the order the set yielded them.
compose(order, line) == Join(order) \o " " \o line

\* A slip in line 193: the slice keeps one character too many.
truncate_one_more(reply) ==
    IF Len(reply) > MaxReplyLen THEN SubSeq(reply, 1, MaxReplyLen + 1) ELSE reply

\* A slip in line 193: the slice keeps the end of the reply, reply[-140:].
truncate_tail(reply) ==
    IF Len(reply) > MaxReplyLen
    THEN SubSeq(reply, Len(reply) - MaxReplyLen + 1, Len(reply))
    ELSE reply

\* Lines 191-193: the reply as sent.
truncate(reply) ==
    IF Len(reply) > MaxReplyLen THEN SubSeq(reply, 1, MaxReplyLen) ELSE reply

\* handle_tweet gets as far as line 188 on this record.
Addressed(tweet) ==
    /\ "user" \in DOMAIN tweet
    /\ ~is_own(tweet)
    /\ "entities" \in DOMAIN tweet
    /\ is_mentioned(usernames_of(mentions_of(tweet)))

\* The record as handle_tweet leaves it: the author is appended to its
\* mention list as soon as line 180 is reached.
Appended(tweet) ==
    IF "user" \in DOMAIN tweet /\ ~is_own(tweet) /\ "entities" \in DOMAIN tweet
    THEN [tweet EXCEPT !.entities.user_mentions = mentions_of(tweet)]
    ELSE tweet

\* What one call of handle_tweet does: the log records it writes, the call
\* of interface.tweet it makes (at most one) and the exception it ends with.
\* order is the order the name set was iterated in, line the lyric
\* choose_lyric returned (random.choice's draw), and ok whether
\* interface.tweet returned (it raised otherwise).
handle_tweet(tweet, order, line, ok) ==
    LET out(l, s, e) == [log |-> l, send |-> s, err |-> e]
    IN
    IF "user" \notin DOMAIN tweet THEN out(<<>>, <<>>, "KeyError")
    ELSE IF is_own(tweet) THEN out(<<>>, <<>>, "")
    ELSE IF "entities" \notin DOMAIN tweet THEN out(<<>>, <<>>, "KeyError")
    ELSE IF ~is_mentioned(usernames_of(mentions_of(tweet)))
         THEN out(<<<<"info", "NOT IN THAT TWEET">>>>, <<>>, "")
    ELSE IF "text" \notin DOMAIN tweet THEN out(<<>>, <<>>, "KeyError")
    ELSE IF Get(lyrics_lower) = <<>> THEN out(<<>>, <<>>, "ValueError")
    ELSE
    LET reply == compose(order, line)
        l1 == <<<<"info", "MAX SCORE">>>>
        l2 == IF Len(reply) > MaxReplyLen
              THEN l1 \o <<<<"warning", "ALMOST SENT TOO LONG REPLY">>>>
              ELSE l1
    IN
    IF "id" \notin DOMAIN tweet THEN out(l2, <<>>, "KeyError")
    ELSE out(IF iface = "debug" /\ ok THEN l2 \o <<<<"info", "SEND">>>> ELSE l2,
             <<[msg |-> truncate(reply), reply_to |-> tweet.id, ok |-> ok]>>,
             IF ok THEN "" ELSE "TwitterError")

\* The orders the prefix names of a record can come in.
OrdersOf(tweet) ==
    IF Addressed(tweet)
    THEN Orders(prefix_of(usernames_of(mentions_of(tweet))))
    ELSE {<<>>}

\* The elements of a list, as a set.
ToSet(seq) == {seq[i] : i \in DOMAIN seq}

\* The lyrics choose_lyric can return for a record: random.choice draws any
\* element of the list of candidates.
ChoicesOf(tweet) ==
    IF Addressed(tweet) /\ "text" \in DOMAIN tweet /\ Get(lyrics_lower) # <<>>
    THEN ToSet(candidates(tweet.text, Get(lyrics), Get(lyrics_lower)))
    ELSE {""}

\* What interface.tweet can do: DebugInterface.tweet only logs, and
\* TwitterInterface.tweet raises when the API call fails.
SendResults == IF iface = "live" THEN BOOLEAN ELSE {TRUE}

-----------------------------------------------------------------------------
(* PySwizzle.run: the body of the loop, lines 204-216 *)

\* A slip in line 213: a record without an event kind is taken for a tweet
\* without a test for its text.
body_text_assumed(tweet, order, line, ok) ==
    LET dbg == <<<<"debug", "TWEET">>>>
        out(l, c, s, e) == [log |-> dbg \o l, called |-> c, send |-> s, err |-> e]
    IN
    IF "event" \in DOMAIN tweet
    THEN IF tweet.event \in events
         THEN out(<<<<"info", "HANDLING EVENT">>>>, <<tweet>>, <<>>, "")
         ELSE out(<<<<"info", "UNHANDLED EVENT">>>>, <<>>, <<>>, "")
    ELSE IF "user" \notin DOMAIN tweet THEN out(<<>>, <<>>, <<>>, "KeyError")
         ELSE LET h == handle_tweet(tweet, order, line, ok)
              IN  out(<<<<"info", "HANDLING TWEET">>>> \o h.log, <<>>, h.send, h.err)

\* A slip in lines 206-213: the record is tested for a text before it is
\* tested for an event kind.
body_text_first(tweet, order, line, ok) ==
    LET dbg == <<<<"debug", "TWEET">>>>
        out(l, c, s, e) == [log |-> dbg \o l, called |-> c, send |-> s, err |-> e]
    IN
    IF "text" \in DOMAIN tweet
    THEN IF "user" \notin DOMAIN tweet THEN out(<<>>, <<>>, <<>>, "KeyError")
         ELSE LET h == handle_tweet(tweet, order, line, ok)
              IN  out(<<<<"info", "HANDLING TWEET">>>> \o h.log, <<>>, h.send, h.err)
    ELSE IF "event" \in DOMAIN tweet
    THEN IF tweet.event \in events
         THEN out(<<<<"info", "HANDLING EVENT">>>>, <<tweet>>, <<>>, "")
         ELSE out(<<<<"info", "UNHANDLED EVENT">>>>, <<>>, <<>>, "")
    ELSE out(<<>>, <<>>, <<>>, "")

\* One turn of the loop on the record tweet: what it logs, the callback it
\* calls, the call of interface.tweet it makes, the exception it ends with.
body(tweet, order, line, ok) ==
    LET dbg == <<<<"debug", "TWEET">>>>
        out(l, c, s, e) == [log |-> dbg \o l, called |-> c, send |-> s, err |-> e]
    IN
    IF "event" \in DOMAIN tweet
    THEN IF tweet.event \in events
         THEN out(<<<<"info", "HANDLING EVENT">>>>, <<tweet>>, <<>>, "")
         ELSE out(<<<<"info", "UNHANDLED EVENT">>>>, <<>>, <<>>, "")
    ELSE IF "text" \in DOMAIN tweet
    THEN IF "user" \notin DOMAIN tweet THEN out(<<>>, <<>>, <<>>, "KeyError")
         ELSE LET h == handle_tweet(tweet, order, line, ok)
              IN  out(<<<<"info", "HANDLING TWEET">>>> \o h.log, <<>>, h.send, h.err)
    ELSE out(<<>>, <<>>, <<>>, "")

\* The record as the body of the loop leaves it.
Mutated(tweet) ==
    IF "event" \notin DOMAIN tweet /\ "text" \in DOMAIN tweet
    THEN Appended(tweet)
    ELSE tweet

-----------------------------------------------------------------------------
(* The inputs of the model *)

RECURSIVE Rep(_, _)
\* c * n
Rep(c, n) ==
    IF n = 0 THEN ""
    ELSE LET half == Rep(c, n \div 2)
         IN  half \o half \o (IF n % 2 = 1 THEN c ELSE "")

\* A lyrics file: two lyrics that differ only in case, blank lines, leading
\* and trailing blanks, and a long last line without a line terminator.
FileSongs ==
    <<"Shake it off\n", "\n", "  We are never ever\n", "shake it OFF \n",
      Rep("o", LongLen)>>

\* The lyrics files run() can find: songs, an empty file, and a file whose
\* only line is made of blanks.
Files == {FileSongs, <<>>, <<"  \n">>}

\* The records a prepared list is made of, for the record at index id.
Shapes(id) ==
    <<Tweet(id, "al", <<username>>, "Shake it"),
      Tweet(id, username, <<username, "al">>, "Shake it"),
      Tweet(id, "al", <<"bo", "PySwizzle">>, "oo"),
      Tweet(id, "PySwizzle", <<username, "bo", "al", "bo">>, "oo"),
      Tweet(id, "al", <<username, "bo", "al">>, "qqq"),
      Event("follow"),
      [event |-> "follow", text |-> "Shake it"],
      [friends |-> <<>>],
      [text |-> "oo"],
      [user |-> User("al"), text |-> "oo",
       entities |-> [user_mentions |-> <<User(username)>>]],
      [id |-> id, user |-> User("al"), text |-> "oo"]>>

\* The prepared lists of a DebugInterface.
Scripts ==
    UNION {{[i \in 1..n |-> Shapes(i)[c[i]]] : c \in [1..n -> DOMAIN Shapes(0)]}
           : n \in 0..MaxTweets}

\* The records a live stream delivers, for the id-th record read.
LiveRecords(id) ==
    {Tweet(id, "al", <<username>>, "Shake it"), Event("follow"), Hangup}

\* The event kinds a callback gets registered for.
Kinds == {"follow"}

-----------------------------------------------------------------------------
(* The bot, from construction to the end of run() *)

Init ==
    /\ iface \in {"debug", "live"}
    /\ file \in Files
    /\ lyrics = None
    /\ lyrics_lower = None
    /\ events = {}
    /\ tweets \in (IF iface = "debug" THEN Scripts ELSE {<<>>})
    /\ pos = 0
    /\ opens = IF iface = "live" THEN 1 ELSE 0
    /\ depth = 0
    /\ delivered = <<>>
    /\ observed = <<>>
    /\ called = <<>>
    /\ sent = <<>>
    /\ log = <<>>
    /\ pc = "start"
    /\ err = ""
    /\ text = ""
    /\ lines = None
    /\ chosen = None
    /\ loads = <<>>

\* bot.events[kind] = callback, before run().
RegisterCallback ==
    /\ pc = "start"
    /\ \E kind \in Kinds \ events : events' = events \cup {kind}
    /\ UNCHANGED <<iface, file, lyrics, lyrics_lower, tweets, pos, opens, depth,
                   delivered, observed, called, sent, log, pc, err, text,
                   lines, chosen, loads>>

\* run(), lines 200-201: the lyrics are loaded unless they already are.
RunStart ==
    /\ pc = "start"
    /\ IF lyrics = None
       THEN \E stored \in {load_lyrics(file)} :
                /\ lyrics' = Some(stored.lyrics)
                /\ lyrics_lower' = Some(stored.lyrics_lower)
                /\ loads' = Append(loads, stored)
       ELSE UNCHANGED <<lyrics, lyrics_lower, loads>>
    /\ pc' = "loop"
    /\ UNCHANGED <<iface, file, events, tweets, pos, opens, depth, delivered,
                   observed, called, sent, log, err, text, lines, chosen>>

\* One pass of the loop body over the record the iterator yielded.
Route(tweet, order, line, ok) ==
    \E b \in {body(tweet, order, line, ok)} :
        /\ observed' = Append(observed, tweet)
        /\ called' = called \o b.called
        /\ sent' = sent \o b.send
        /\ log' = log \o b.log
        /\ err' = b.err
        /\ pc' = IF b.err = "" THEN "loop" ELSE "crashed"

\* DebugInterface.__iter__ is iter(self.tweets): the loop takes the next
\* record of the list; what handle_tweet appends to the record's mention
\* list is appended in the list's own record.
DebugStep ==
    /\ pc = "loop"
    /\ iface = "debug"
    /\ pos < Len(tweets)
    /\ LET tweet == tweets[pos + 1]
       IN  /\ \E line \in ChoicesOf(tweet), order \in OrdersOf(tweet), ok \in SendResults :
                 Route(tweet, order, line, ok)
           /\ tweets' = [tweets EXCEPT ![pos + 1] = Mutated(tweet)]
    /\ pos' = pos + 1
    /\ UNCHANGED <<iface, file, lyrics, lyrics_lower, events, opens, depth,
                   delivered, text, lines, chosen, loads>>

\* A slip in line 203: the loop can end before the list is exhausted.
DebugStopEarly ==
    /\ pc = "loop"
    /\ iface = "debug"
    /\ pos <= Len(tweets)
    /\ pc' = "done"
    /\ UNCHANGED <<iface, file, lyrics, lyrics_lower, events, tweets, pos, opens,
                   depth, delivered, observed, called, sent, log, err, text,
                   lines, chosen, loads>>

\* The list is exhausted: the loop, and run(), end.
DebugStop ==
    /\ pc = "loop"
    /\ iface = "debug"
    /\ pos = Len(tweets)
    /\ pc' = "done"
    /\ UNCHANGED <<iface, file, lyrics, lyrics_lower, events, tweets, pos, opens,
                   depth, delivered, observed, called, sent, log, err, text,
                   lines, chosen, loads>>

\* A slip in lines 77-81: the hangup is returned like any other record.
next_of_any(n) == Some(n)

\* TwitterInterface.__next__, lines 76-81: what __next__ returns for the
\* record n it read from the stream, None when it opens the stream again and
\* calls itself instead.
next_of(n) == IF "hangup" \in DOMAIN n THEN None ELSE Some(n)

\* The nested calls of __next__ the interpreter allows: CPython raises
\* RecursionError at sys.getrecursionlimit() frames, 1000 unless it is set,
\* and bot.py does not set it.  (The frames under the first __next__, a
\* handful, are not counted.)
RecursionLimit == 1000

\* TwitterInterface.__next__, lines 76-79: the record n read is a hangup, the
\* stream is opened again and __next__ calls itself.
Reopen(n) ==
    /\ next_of(n) = None
    /\ depth < RecursionLimit
    /\ delivered' = Append(delivered, n)
    /\ opens' = opens + 1
    /\ depth' = depth + 1
    /\ UNCHANGED <<iface, file, lyrics, lyrics_lower, events, tweets, pos,
                   observed, called, sent, log, pc, err, text, lines, chosen, loads>>

\* Line 79 with no frame left: the stream is opened again, the call of
\* next(self) raises RecursionError, and nothing between it and main()
\* catches the exception.
Overflow(n) ==
    /\ next_of(n) = None
    /\ depth = RecursionLimit
    /\ delivered' = Append(delivered, n)
    /\ opens' = opens + 1
    /\ depth' = 0
    /\ err' = "RecursionError"
    /\ pc' = "crashed"
    /\ UNCHANGED <<iface, file, lyrics, lyrics_lower, events, tweets, pos,
                   observed, called, sent, log, text, lines, chosen, loads>>

\* TwitterInterface.__next__ returns the record n it read, all its nested
\* calls return it too, and the loop body runs on it.
Deliver(n) ==
    /\ next_of(n) # None
    /\ delivered' = Append(delivered, n)
    /\ LET tweet == Get(next_of(n))
       IN  \E line \in ChoicesOf(tweet), order \in OrdersOf(tweet), ok \in SendResults :
               Route(tweet, order, line, ok)
    /\ pos' = pos + 1
    /\ depth' = 0
    /\ UNCHANGED <<iface, file, lyrics, lyrics_lower, events, tweets, opens,
                   text, lines, chosen, loads>>

\* The loop's call of __next__, or a nested one, reads a hangup.
LiveHangup ==
    /\ pc = "loop"
    /\ iface = "live"
    /\ Len(delivered) < MaxReads
    /\ \E n \in LiveRecords(Len(delivered) + 1) : Reopen(n)

\* The loop's call of __next__, or a nested one, reads another record.
LiveStep ==
    /\ pc = "loop"
    /\ iface = "live"
    /\ Len(delivered) < MaxReads
    /\ \E n \in LiveRecords(Len(delivered) + 1) : Deliver(n)

\* The stream's iterator is exhausted: StopIteration leaves __next__ and ends
\* the loop.
LiveStop ==
    /\ pc = "loop"
    /\ iface = "live"
    /\ pc' = "done"
    /\ depth' = 0
    /\ UNCHANGED <<iface, file, lyrics, lyrics_lower, events, tweets, pos, opens,
                   delivered, observed, called, sent, log, err, text, lines, chosen,
                   loads>>

Next ==
    \/ RegisterCallback
    \/ RunStart
    \/ DebugStep
    \/ DebugStop
    \/ LiveHangup
    \/ LiveStep
    \/ LiveStop

Spec == Init /\ [][Next]_vars

-----------------------------------------------------------------------------
(* run() over a TwitterInterface whose stream hangs up again and again *)

InitStorm ==
    /\ iface = "live"
    /\ file = <<"Shake it off\n">>
    /\ lyrics = None
    /\ lyrics_lower = None
    /\ events = {}
    /\ tweets = <<>>
    /\ pos = 0
    /\ opens = 1
    /\ depth = 0
    /\ delivered = <<>>
    /\ observed = <<>>
    /\ called = <<>>
    /\ sent = <<>>
    /\ log = <<>>
    /\ pc = "start"
    /\ err = ""
    /\ text = ""
    /\ lines = None
    /\ chosen = None
    /\ loads = <<>>

\* Every stream opened so far began with a hangup, and so does this one.
StormHangup ==
    /\ pc = "loop"
    /\ iface = "live"
    /\ depth = Len(delivered)
    /\ Reopen(Hangup)

\* One hangup more than the interpreter has frames for.
StormOverflow ==
    /\ pc = "loop"
    /\ iface = "live"
    /\ depth = Len(delivered)
    /\ Overflow(Hangup)

\* The stream opened last begins with a record that is not a hangup.
StormStep ==
    /\ pc = "loop"
    /\ iface = "live"
    /\ depth = Len(delivered)
    /\ \E n \in LiveRecords(Len(delivered) + 1) : Deliver(n)

NextStorm ==
    \/ RunStart
    \/ StormHangup
    \/ StormOverflow
    \/ StormStep
    \/ LiveStop

SpecStorm == InitStorm /\ [][NextStorm]_vars

-----------------------------------------------------------------------------
(* run() over a DebugInterface, to its end *)

\* The lyrics files of the replayed runs.
ReplayFiles == {<<"Shake it off\n", "\n", "  We are never ever\n">>, <<>>}

\* The prepared lists of the replayed runs: tweets to answer, the bot's own,
\* tweets that do not mention it, events, the friends list and a tweet
\* without author.
ReplayScripts ==
    {t \in Scripts :
        \A i \in DOMAIN t :
            \/ "event" \in DOMAIN t[i] /\ "text" \notin DOMAIN t[i]
            \/ "friends" \in DOMAIN t[i]
            \/ "text" \in DOMAIN t[i] /\ "entities" \notin DOMAIN t[i] /\ "id" \notin DOMAIN t[i]
            \/ IsTweet(t[i]) /\ Len(t[i].entities.user_mentions) <= 2}

InitReplay ==
    /\ iface = "debug"
    /\ file \in ReplayFiles
    /\ lyrics = None
    /\ lyrics_lower = None
    /\ events = {}
    /\ tweets \in ReplayScripts
    /\ pos = 0
    /\ opens = 0
    /\ depth = 0
    /\ delivered = <<>>
    /\ observed = <<>>
    /\ called = <<>>
    /\ sent = <<>>
    /\ log = <<>>
    /\ pc = "start"
    /\ err = ""
    /\ text = ""
    /\ lines = None
    /\ chosen = None
    /\ loads = <<>>

NextReplay ==
    \/ RegisterCallback
    \/ RunStart
    \/ DebugStep
    \/ DebugStop

\* main() calls run() once the callbacks are registered, and run() over a
\* DebugInterface is straight-line code: the loop takes the next record
\* while there is one and ends when there is none.
SpecReplay ==
    /\ InitReplay
    /\ [][NextReplay]_vars
    /\ WF_vars(RunStart) /\ WF_vars(DebugStep) /\ WF_vars(DebugStop)

-----------------------------------------------------------------------------
(* choose_lyric called on its own, on a bot whose lyrics are loaded *)

\* The lyrics files the matcher is tried on.
MatchFiles ==
    {FileSongs,
     <<"i knew you were trouble\n", "we are never getting back together\n",
       "shake it off\n">>,
     <<"Contained\n", "in\n", "IN\n">>,
     <<"a b\n", "a b\n", "b a\n", "A B\n">>,
     <<"only\n">>,
     <<"  \n">>,
     <<>>}

\* The tweet texts the matcher is tried on.
Queries ==
    {"Shake it", "qqq", "oo EVER", "i knew you were trouble when you walked in",
     "in IN  in", "", " \t", "a", "b a B", "Only only x"}

InitMatch ==
    /\ iface = "debug"
    /\ file \in MatchFiles
    /\ lyrics = Some(load_lyrics(file).lyrics)
    /\ lyrics_lower = Some(load_lyrics(file).lyrics_lower)
    /\ events = {}
    /\ tweets = <<>>
    /\ pos = 0
    /\ opens = 0
    /\ depth = 0
    /\ delivered = <<>>
    /\ observed = <<>>
    /\ called = <<>>
    /\ sent = <<>>
    /\ log = <<>>
    /\ pc = "ready"
    /\ err = ""
    /\ text = ""
    /\ lines = None
    /\ chosen = None
    /\ loads = <<load_lyrics(file)>>

\* choose_lyric(t), lines 162-167: the scores are taken and the lyrics of
\* maximal score are collected.
ChooseLyricScore(t) ==
    /\ pc = "ready"
    /\ Get(lyrics_lower) # <<>>
    /\ text' = t
    /\ lines' = Some(candidates(t, Get(lyrics), Get(lyrics_lower)))
    /\ log' = Append(log, <<"info", "MAX SCORE">>)
    /\ pc' = "choice"
    /\ UNCHANGED <<iface, file, lyrics, lyrics_lower, events, tweets, pos, opens,
                   depth, delivered, observed, called, sent, err, chosen, loads>>

\* choose_lyric(t), line 168: random.choice returns any element of the list.
ChooseLyricReturn ==
    /\ pc = "choice"
    /\ \E i \in DOMAIN Get(lines) : chosen' = Some(Get(lines)[i])
    /\ pc' = "returned"
    /\ UNCHANGED <<iface, file, lyrics, lyrics_lower, events, tweets, pos, opens,
                   depth, delivered, observed, called, sent, log, err, text,
                   lines, loads>>

\* choose_lyric(t) with no lyrics: max() of an empty list raises ValueError.
ChooseLyricRaises(t) ==
    /\ pc = "ready"
    /\ Get(lyrics_lower) = <<>>
    /\ text' = t
    /\ err' = "ValueError"
    /\ pc' = "crashed"
    /\ UNCHANGED <<iface, file, lyrics, lyrics_lower, events, tweets, pos, opens,
                   depth, delivered, observed, called, sent, log, lines, chosen,
                   loads>>

NextMatch ==
    \/ \E t \in Queries : ChooseLyricScore(t)
    \/ ChooseLyricReturn
    \/ \E t \in Queries : ChooseLyricRaises(t)

SpecMatch == InitMatch /\ [][NextMatch]_vars

-----------------------------------------------------------------------------
(* load_lyrics called on its own, once or several times on the same file *)

\* A lyrics file has at most this many terminated lines.
MaxLines == 3

\* The terminated lines of the files the loader is tried on.
Terminated == {"\n", "  \n", "Ab \n", " cD\n", "\tE f\t\n"}

\* What can follow the last line terminator of a file.
Unterminated == {"Gh", " "}

\* The lyrics files the loader is tried on.
LoadFiles ==
    {f \o last :
        f \in UNION {[1..n -> Terminated] : n \in 0..MaxLines},
        last \in {<<>>} \cup {<<u>> : u \in Unterminated}}

InitLoad ==
    /\ iface = "debug"
    /\ file \in LoadFiles
    /\ lyrics = None
    /\ lyrics_lower = None
    /\ events = {}
    /\ tweets = <<>>
    /\ pos = 0
    /\ opens = 0
    /\ depth = 0
    /\ delivered = <<>>
    /\ observed = <<>>
    /\ called = <<>>
    /\ sent = <<>>
    /\ log = <<>>
    /\ pc = "start"
    /\ err = ""
    /\ text = ""
    /\ lines = None
    /\ chosen = None
    /\ loads = <<>>

\* bot.load_lyrics(filename): both lists are replaced.
LoadLyrics ==
    /\ pc = "start"
    /\ Len(loads) < MaxLoads
    /\ \E stored \in {load_lyrics(file)} :
          /\ lyrics' = Some(stored.lyrics)
          /\ lyrics_lower' = Some(stored.lyrics_lower)
          /\ loads' = Append(loads, stored)
    /\ UNCHANGED <<iface, file, events, tweets, pos, opens, depth, delivered,
                   observed, called, sent, log, pc, err, text, lines, chosen>>

NextLoad == LoadLyrics

SpecLoad == InitLoad /\ [][NextLoad]_vars

-----------------------------------------------------------------------------
(* The properties *)

\* A record is a Message: it has an author, a mention list, a text and an
\* identifier, and no event kind.
IsMessage(m) ==
    /\ {"user", "entities", "text", "id"} \subseteq DOMAIN m
    /\ "event" \notin DOMAIN m

\* The author of a Message and the handles of its explicit mention list.
Author(m) == m.user.screen_name
Mentioned(m) ==
    {m.entities.user_mentions[i].screen_name : i \in DOMAIN m.entities.user_mentions}

\* The last element of a non-empty list.
Last(seq) == seq[Len(seq)]

\* This step runs the loop body on one more record.
Routes == Len(observed') = Len(observed) + 1

\* The calls of interface.tweet made in reply to the Message m.
RepliesTo(m) == {j \in DOMAIN sent : sent[j].reply_to = m.id}

\* C1: routing a Message whose author is the bot itself makes no call of
\* interface.tweet, whatever its mention list holds.
C1_OwnTweetNeverSent ==
    [][(Routes /\ IsMessage(Last(observed')) /\ Author(Last(observed')) = username)
       => sent' = sent]_vars

\* C1 happens: a Message of the bot's own that mentions the bot was routed.
C1_Witness ==
    \E i \in DOMAIN observed :
        /\ IsMessage(observed[i])
        /\ Author(observed[i]) = username
        /\ username \in Mentioned(observed[i])
        /\ pos >= i

\* C2: routing a Message that neither mentions the bot's handle (compared
\* exactly, case included) nor is written by the bot makes no call of
\* interface.tweet.
C2_UnmentionedNeverSent ==
    [][(/\ Routes
        /\ IsMessage(Last(observed'))
        /\ Author(Last(observed')) # username
        /\ username \notin Mentioned(Last(observed')))
       => sent' = sent]_vars

\* C2 happens: a Message that mentions the bot's handle in another case only
\* was routed.
C2_Witness ==
    \E i \in DOMAIN observed :
        /\ IsMessage(observed[i])
        /\ Author(observed[i]) # username
        /\ username \notin Mentioned(observed[i])
        /\ \E h \in Mentioned(observed[i]) : Lower(h) = username
        /\ pc = "loop"

\* C3: every routed Message that mentions the bot and is not written by it
\* is answered by exactly one call of interface.tweet, whose reply_to is the
\* Message's id.
C3_AddressedTweetSentOnce ==
    \A i \in DOMAIN observed :
        (/\ IsMessage(observed[i])
         /\ Author(observed[i]) # username
         /\ username \in Mentioned(observed[i]))
        => Cardinality(RepliesTo(observed[i])) = 1

\* C4: no text passed to interface.tweet is longer than 140 characters.
C4_SentAtMost140 == \A j \in DOMAIN sent : Len(sent[j].msg) <= MaxReplyLen

\* C4 happens: a reply that was too long was cut and sent.
C4_Witness ==
    /\ \E j \in DOMAIN sent : Len(sent[j].msg) = MaxReplyLen
    /\ \E j \in DOMAIN log : log[j] = <<"warning", "ALMOST SENT TOO LONG REPLY">>

\* The similarity score of a lyric against the words of the text t.
Score(t, line) == similarity(pieces_of(t), Lower(line))

\* The lyrics whose score against t is the greatest of all the lyrics' scores.
MaxScoring(t) ==
    {l \in ToSet(Get(lyrics)) :
        \A i \in DOMAIN Get(lyrics) : Score(t, Get(lyrics)[i]) <= Score(t, l)}

\* C5: with lyrics loaded and not empty, choose_lyric returns a lyric of the
\* list as loaded (in its original case) whose score is the maximum of the
\* scores of all the lyrics.
C5_ChosenIsMaxScoringLyric ==
    (pc = "returned" /\ Get(lyrics) # <<>>) =>
        /\ Get(chosen) \in ToSet(Get(lyrics))
        /\ \A i \in DOMAIN Get(lyrics) :
              Score(text, Get(lyrics)[i]) <= Score(text, Get(chosen))

\* C5 happens: choose_lyric returned a lyric that is not all lowercase and
\* scores more than another lyric.
C5_Witness ==
    /\ pc = "returned"
    /\ Lower(Get(chosen)) # Get(chosen)
    /\ \E i \in DOMAIN Get(lyrics) :
          Score(text, Get(lyrics)[i]) < Score(text, Get(chosen))

\* C6: the lyrics choose_lyric can return are exactly the lyrics of maximal
\* score: the list it draws from holds those and no other, each of them is
\* a possible result, no other lyric is returned, and when every lyric scores
\* 0 the call returns and each lyric is a possible result.
C6_CandidatesAreMaxScoring ==
    /\ pc = "returned" => Get(chosen) \in MaxScoring(text)
    /\ pc = "choice" =>
          /\ ToSet(Get(lines)) = MaxScoring(text)
          /\ \A l \in MaxScoring(text) :
                ENABLED (ChooseLyricReturn /\ chosen' = Some(l))
          /\ (\A i \in DOMAIN Get(lyrics) : Score(text, Get(lyrics)[i]) = 0)
             => /\ ENABLED ChooseLyricReturn
                /\ \A i \in DOMAIN Get(lyrics) :
                      ENABLED (ChooseLyricReturn /\ chosen' = Some(Get(lyrics)[i]))

\* C6 happens: choose_lyric returned the last of several lyrics that all
\* score 0.
C6_Witness ==
    /\ pc = "returned"
    /\ Len(Get(lyrics)) > 1
    /\ \A i \in DOMAIN Get(lyrics) : Score(text, Get(lyrics)[i]) = 0
    /\ Get(chosen) = Last(Get(lyrics))
    /\ Get(chosen) # Get(lyrics)[1]

\* The records of a list that are not hangups, in the list's order.
NonHangups(seq) == SelectSeq(seq, LAMBDA n : "hangup" \notin DOMAIN n)

\* C7: on the live interface the loop is handed exactly the records read
\* from the stream that are not hangups, in the order read and once each,
\* and never a hangup.
C7_LiveHandsOverNonHangups ==
    iface = "live" =>
        /\ observed = NonHangups(delivered)
        /\ \A i \in DOMAIN observed : "hangup" \notin DOMAIN observed[i]

\* C7 happens: the stream delivered a Message, a hangup and a Message, and
\* the loop was handed the two Messages.
C7_Witness ==
    /\ iface = "live"
    /\ Len(delivered) = 3
    /\ IsMessage(delivered[1])
    /\ delivered[2] = Hangup
    /\ IsMessage(delivered[3])
    /\ observed = <<delivered[1], delivered[3]>>
    /\ opens = 2

\* A lyrics file yields no candidate line: each of its lines is empty once
\* stripped.
NoCandidateLines(f) == \A i \in DOMAIN f : Strip(f[i]) = ""

\* C8: when the lyrics file yields no candidate line, run() ends with
\* ConfigurationError as it loads the file, before the loop takes a record.
C8_EmptySourceFailsAtLoad ==
    (pc # "start" /\ NoCandidateLines(file)) =>
        /\ pc = "crashed"
        /\ err = "ConfigurationError"
        /\ observed = <<>>

\* C9: a call of interface.tweet that fails does not end the loop.
C9_SendFailureNotFatal ==
    (\E j \in DOMAIN sent : ~sent[j].ok) => pc \in {"loop", "done"}

\* C10: after every load_lyrics both lists have the same length,
\* lyrics_lower[i] is lyrics[i] in lowercase for every i, and every load of
\* the same file stores the same two lists.
C10_ParallelListsEveryLoad ==
    /\ \A n \in DOMAIN loads :
          /\ Len(loads[n].lyrics) = Len(loads[n].lyrics_lower)
          /\ \A i \in DOMAIN loads[n].lyrics :
                loads[n].lyrics_lower[i] = Lower(loads[n].lyrics[i])
          /\ loads[n] = loads[1]
    /\ loads # <<>> =>
          /\ lyrics = Some(Last(loads).lyrics)
          /\ lyrics_lower = Some(Last(loads).lyrics_lower)

\* C10 happens: a file with a blank line, a line to strip and an uppercase
\* letter was loaded twice.
C10_Witness ==
    /\ Len(loads) = 2
    /\ \E i \in DOMAIN file : file[i] = "\n"
    /\ \E i \in DOMAIN Get(lyrics) :
          /\ Get(lyrics)[i] # Get(lyrics_lower)[i]
          /\ \E k \in DOMAIN file : file[k] # Get(lyrics)[i] \o "\n" /\ Strip(file[k]) = Get(lyrics)[i]

\* A line of the file without its trailing whitespace, the rest untouched.
RStripped(s) ==
    IF Inked(s) = {} THEN ""
    ELSE SubSeq(s, 1, CHOOSE i \in Inked(s) : \A j \in Inked(s) : j <= i)

\* C11: load_lyrics stores, in the file's order, the lines of the file that
\* are not empty once their trailing whitespace is stripped, each as in the
\* file but for that trailing whitespace; no stored lyric is ''.
C11_BlankLinesDropped ==
    \A n \in DOMAIN loads :
        /\ loads[n].lyrics =
              SelectSeq([i \in DOMAIN file |-> RStripped(file[i])], LAMBDA l : l # "")
        /\ \A i \in DOMAIN loads[n].lyrics : loads[n].lyrics[i] # ""

\* The log records this step writes.
NewLog == SubSeq(log', Len(log) + 1, Len(log'))

\* This step writes the warning of a reply that is too long.
Warns == \E i \in DOMAIN NewLog : NewLog[i] = <<"warning", "ALMOST SENT TOO LONG REPLY">>

\* This step makes one call of interface.tweet.
Sends == Len(sent') = Len(sent) + 1

\* The handles a reply to the Message m is addressed to, '@' in front.
Handles(m) == {"@" \o h : h \in (Mentioned(m) \cup {Author(m)}) \ {username}}

\* The replies that can be composed for the Message m: its handles in some
\* order with one space between them, one space, and a lyric.
Composed(m) ==
    {Join(order) \o " " \o line :
        order \in Orders(Handles(m)), line \in ToSet(Get(lyrics))}

\* C12: the text passed to interface.tweet is the composed reply itself, with
\* no warning logged, when the reply has at most 140 characters, and its
\* first 140 characters, with a warning logged, when it has more; a reply
\* that draws the warning is sent all the same.
C12_LongReplyCutAndSent ==
    [][(Routes /\ IsMessage(Last(observed'))) =>
        /\ Warns => Sends
        /\ Sends =>
              \E full \in Composed(Last(observed')) :
                  IF Len(full) > MaxReplyLen
                  THEN Last(sent').msg = SubSeq(full, 1, MaxReplyLen) /\ Warns
                  ELSE Last(sent').msg = full /\ ~Warns]_vars

\* C12 happens: one reply of more than 140 characters was cut and sent after
\* a warning, and one of exactly 140 characters was sent as composed.
C12_Witness ==
    /\ Len(sent) = 2
    /\ \E full \in Composed(observed[1]) :
          /\ Len(full) = MaxReplyLen
          /\ sent[1].msg = full
    /\ \E full \in Composed(observed[2]) :
          /\ Len(full) > MaxReplyLen
          /\ sent[2].msg = SubSeq(full, 1, MaxReplyLen)
    /\ Cardinality({i \in DOMAIN log : log[i] = <<"warning", "ALMOST SENT TOO LONG REPLY">>}) = 1

\* C13: routing a record that carries an event kind makes no call of
\* interface.tweet and does not enter the reply pipeline, body text or not;
\* when the kind has a registered callback the callback is called exactly
\* once, with the record, and otherwise no callback is called and the step
\* logs the unhandled event and nothing else besides the record itself.
C13_EventsGoToCallbacks ==
    [][(Routes /\ "event" \in DOMAIN Last(observed')) =>
        /\ sent' = sent
        /\ \A i \in DOMAIN NewLog : NewLog[i] # <<"info", "HANDLING TWEET">>
        /\ Last(observed').event \in events =>
              called' = Append(called, Last(observed'))
        /\ Last(observed').event \notin events =>
              /\ called' = called
              /\ NewLog = <<<<"debug", "TWEET">>, <<"info", "UNHANDLED EVENT">>>>]_vars

\* C13 happens: two events with body text were routed while their kind had
\* a callback; the callback got each of them once and nothing was sent.
C13_Witness ==
    /\ Len(observed) = 2
    /\ \A i \in DOMAIN observed : {"event", "text"} \subseteq DOMAIN observed[i]
    /\ observed[1].event \in events
    /\ called = observed
    /\ sent = <<>>
    /\ pc = "loop"

\* C14: routing a record that has neither an event kind nor a text calls no
\* callback, makes no call of interface.tweet and raises nothing: the loop
\* goes on to the next record.
C14_UnknownRecordSkipped ==
    [][(Routes /\ "event" \notin DOMAIN Last(observed') /\ "text" \notin DOMAIN Last(observed'))
       => /\ called' = called
          /\ sent' = sent
          /\ err' = ""
          /\ pc' = "loop"]_vars

\* C14 happens: a record with neither key was routed and the loop then
\* routed the record after it, a tweet that it answered.
C14_Witness ==
    /\ Len(observed) = 2
    /\ "event" \notin DOMAIN observed[1]
    /\ "text" \notin DOMAIN observed[1]
    /\ IsMessage(observed[2])
    /\ Len(sent) = 1
    /\ called = <<>>

\* A record with a text and no event kind that lacks its author, its
\* mention list or its identifier.
Malformed(m) ==
    /\ "event" \notin DOMAIN m
    /\ "text" \in DOMAIN m
    /\ ~({"user", "entities", "id"} \subseteq DOMAIN m)

\* C15: a malformed tweet is dropped in silence: no call of interface.tweet
\* is made for it and run() does not end on it.
C15_MalformedDiscarded ==
    /\ Len(sent) <= Cardinality({i \in DOMAIN observed : ~Malformed(observed[i])})
    /\ (observed # <<>> /\ Malformed(Last(observed))) =>
          /\ pc \in {"loop", "done"}
          /\ err = ""

RECURSIVE Addressing(_)
\* The start of a reply to the handles of a list: each handle with '@' in
\* front and one space behind.
Addressing(hs) ==
    IF hs = <<>> THEN ""
    ELSE "@" \o hs[1] \o " " \o Addressing(Tail(hs))

\* C16: the reply composed for a Message (sent whole, or cut to its first
\* 140 characters) is, for some order of the handles in the Message's
\* mention list and its author's, the bot's own handle left out and each
\* handle taken once: '@' and the handle, one space, for each handle in that
\* order, and then a lyric.  The author's handle is among them and the bot's
\* is not.
C16_ReplyAddressesEachOnce ==
    [][(Routes /\ IsMessage(Last(observed')) /\ Sends) =>
        LET m == Last(observed')
            hs == (Mentioned(m) \cup {Author(m)}) \ {username}
        IN  /\ Author(m) \in hs
            /\ \E order \in Orders(hs) :
                  /\ Cardinality(ToSet(order)) = Len(order)
                  /\ username \notin ToSet(order)
                  /\ Author(m) \in ToSet(order)
                  /\ \E i \in DOMAIN Get(lyrics) :
                        LET reply == Addressing(order) \o Get(lyrics)[i]
                        IN  Last(sent').msg =
                               IF Len(reply) > MaxReplyLen
                               THEN SubSeq(reply, 1, MaxReplyLen)
                               ELSE reply]_vars

\* C16 happens: a Message that mentions the bot, its own author and another
\* handle was answered by '@bo @al ' and a lyric, uncut, and a Message that
\* mentions a handle twice by a reply, cut, that names the handle once.
C16_Witness ==
    /\ Len(observed) = 2 /\ Len(sent) = 2
    /\ IsMessage(observed[1])
    /\ username \in Mentioned(observed[1])
    /\ Author(observed[1]) \in Mentioned(observed[1])
    /\ Len(sent[1].msg) < MaxReplyLen
    /\ SubSeq(sent[1].msg, 1, 8) = "@bo @al "
    /\ IsMessage(observed[2])
    /\ Len(observed[2].entities.user_mentions) > Cardinality(Mentioned(observed[2]))
    /\ Len(sent[2].msg) = MaxReplyLen
    /\ SubSeq(sent[2].msg, 1, 20) = "@al @bo @PySwizzle o"

\* The words of the text t in lowercase: the stretches of t.lower() without
\* whitespace that have whitespace or an end of the text on either side.
QueryWords(t) ==
    LET s == Lower(t)
        blank(i) == i < 1 \/ i > Len(s) \/ Ch(s, i) \in {" ", "\t", "\n"}
    IN  {SubSeq(s, a, b) : <<a, b>> \in
            {p \in (1..Len(s)) \X (1..Len(s)) :
                /\ p[1] <= p[2]
                /\ blank(p[1] - 1)
                /\ blank(p[2] + 1)
                /\ \A k \in p[1]..p[2] : ~blank(k)}}

\* The word w occurs in the line l at some offset.
OccursIn(w, l) == \E a \in 0..(Len(l) - Len(w)) : SubSeq(l, a + 1, a + Len(w)) = w

\* C17: the score choose_lyric gives a lyric is the number of different
\* lowercase words of the text that occur somewhere in the lyric in
\* lowercase, letter case and repetition of a word making no difference; on
\* the three lyrics and the text of the example the first lyric alone has
\* the greatest score, 5, and is the only candidate.
C17_ScoreCountsDistinctWords ==
    pc \in {"choice", "returned"} =>
        /\ \A i \in DOMAIN Get(lyrics) :
              similarity(pieces_of(text), Get(lyrics_lower)[i]) =
                 Cardinality({w \in QueryWords(text) : OccursIn(w, Lower(Get(lyrics)[i]))})
        /\ (/\ Get(lyrics) = <<"i knew you were trouble",
                               "we are never getting back together", "shake it off">>
            /\ text = "i knew you were trouble when you walked in")
           => /\ similarity(pieces_of(text), Get(lyrics_lower)[1]) = 5
              /\ similarity(pieces_of(text), Get(lyrics_lower)[2]) < 5
              /\ similarity(pieces_of(text), Get(lyrics_lower)[3]) < 5
              /\ Get(lines) = <<"i knew you were trouble">>

\* C17 happens: choose_lyric returned 'i knew you were trouble' for the text
\* of the example.
C17_Witness ==
    /\ pc = "returned"
    /\ Len(Get(lyrics)) = 3
    /\ text = "i knew you were trouble when you walked in"
    /\ chosen = Some("i knew you were trouble")

\* The record b is the record a but for handles added at the end of its
\* mention list.
SameRecord(a, b) ==
    /\ DOMAIN a = DOMAIN b
    /\ \A k \in DOMAIN a \ {"entities"} : a[k] = b[k]
    /\ "entities" \in DOMAIN a =>
          LET ma == a.entities.user_mentions
              mb == b.entities.user_mentions
          IN  Len(ma) <= Len(mb) /\ ma = SubSeq(mb, 1, Len(ma))

\* The routed Messages that mention the bot and are not written by it.
ToAnswer ==
    SelectSeq(observed,
              LAMBDA m : IsMessage(m) /\ Author(m) # username /\ username \in Mentioned(m))

\* C18: over a DebugInterface whose list holds no malformed tweet, and with
\* at least one lyric, run() routes the records of the list in the list's
\* order, each once, and then ends; the calls of interface.tweet answer, one
\* each and in order, the routed Messages that mention the bot and are not
\* written by it.
C18_ReplayRoutesAllAndEnds ==
    /\ []((/\ iface = "debug"
           /\ \A i \in DOMAIN tweets : ~Malformed(tweets[i])
           /\ lyrics # None => Get(lyrics) # <<>>)
          => /\ pc # "crashed"
             /\ Len(observed) = pos
             /\ pos <= Len(tweets)
             /\ \A i \in 1..pos : SameRecord(observed[i], tweets[i])
             /\ pc = "done" => pos = Len(tweets)
             /\ Len(sent) = Len(ToAnswer)
             /\ \A j \in DOMAIN sent : sent[j].reply_to = ToAnswer[j].id)
    /\ (/\ iface = "debug"
        /\ \A i \in DOMAIN tweets : ~Malformed(tweets[i])
        /\ load_lyrics(file).lyrics # <<>>)
       => <>(pc = "done")

\* C18 happens: run() ended over a list of two Messages to answer, after it
\* answered the first and then the second.
C18_Witness ==
    /\ iface = "debug"
    /\ pc = "done"
    /\ Len(tweets) = 2
    /\ Len(ToAnswer) = 2
    /\ Len(sent) = 2
    /\ sent[1].reply_to = observed[1].id
    /\ sent[2].reply_to = observed[2].id
    /\ sent[1].reply_to # sent[2].reply_to

\* C19: routing a record leaves the callback registry, the two lyric lists
\* and the record itself as they were: the records of the DebugInterface's
\* list that were routed are still the records the loop was handed, mention
\* lists included.
C19_RoutingLeavesNoTrace ==
    /\ events \subseteq Kinds
    /\ (loads # <<>>) =>
          /\ lyrics = Some(loads[1].lyrics)
          /\ lyrics_lower = Some(loads[1].lyrics_lower)
    /\ iface = "debug" =>
          \A i \in DOMAIN observed : tweets[i] = observed[i]

\* The hangups among the records read from the stream so far.
HangupsRead == {i \in DOMAIN delivered : "hangup" \in DOMAIN delivered[i]}

\* C20: on the live interface open_stream has run once at construction and
\* once more for each hangup read, and for no other record; however many
\* hangups come one after another, the call of __next__ that reads them does
\* not fail: run() never ends on a hangup.
C20_EveryHangupReopensOnce ==
    iface = "live" =>
        /\ opens = 1 + Cardinality(HangupsRead)
        /\ pc = "crashed" => (delivered # <<>> /\ Len(delivered) \notin HangupsRead)
        /\ err # "RecursionError"

=============================================================================
